---- MODULE Spec2Model ----
(***************************************************************************)
(* The staking message server of x/staking/keeper/msg_server.go: the five  *)
(* handlers CreateValidator, EditValidator, Delegate, BeginRedelegate and  *)
(* Undelegate, each one atomic step on the ledger context it is handed.    *)
(* The keeper, the bank keeper and the epoch clock the handlers call are   *)
(* modelled by their contracts.                                            *)
(***************************************************************************)
EXTENDS Integers, Sequences, FiniteSets, TLC

VARIABLES
    validators,            \* operator address -> validator record (SetValidator)
    validatorsByConsAddr,  \* consensus address -> operator address
    validatorsByPower,     \* operators in the power-ranking index
    hooks,                 \* operators AfterValidatorCreated was called for
    balances,              \* account address -> bond-denom balance
    pool,                  \* balance of the EpochTempPool module account
    delegations,           \* <<delegator, validator>> -> bonded amount
    queue,                 \* the epoch action queue, in insertion order
    blockHeight,           \* ctx.BlockHeight()
    blockTime,             \* ctx.BlockTime()
    epochNumber,           \* the epoch clock's current epoch number
    consParams,            \* ctx.ConsensusParams()
    call,                  \* the last handler call: its name and request
    resp,                  \* what that call returned
    ncalls,                \* handler calls made so far
    orphans                \* operators persisted by a CreateValidator that failed

vars == <<validators, validatorsByConsAddr, validatorsByPower, hooks, balances,
          pool, delegations, queue, blockHeight, blockTime, epochNumber,
          consParams, call, resp, ncalls, orphans>>

-----------------------------------------------------------------------------
(* Bounds of the model.                                                    *)

MaxCalls == 2
InitBalance == 2
InitDelegation == 1

(* Parameters of the external collaborators.                               *)

UnbondingTime == 21
EpochInterval == 10
BlockSeconds == 5

-----------------------------------------------------------------------------
(* Addresses in their text encoding and decoded.                           *)

ValAddrs == {"a", "b"}
AccAddrs == {"x"}
WellFormedValStrs == {"cosmosvaloper1a", "cosmosvaloper1b"}
ValStrs == WellFormedValStrs \cup {"cosmosvaloper1?"}
WellFormedAccStrs == {"cosmos1x"}
AccStrs == WellFormedAccStrs \cup {"cosmos1?"}
Denoms == {"stake", "atom"}
Amounts == {1, 2}
Epochs == {1, 5}

Nil == "nil"

ValAddressFromBech32(s) ==
    CASE s = "cosmosvaloper1a" -> [addr |-> "a", err |-> Nil]
      [] s = "cosmosvaloper1b" -> [addr |-> "b", err |-> Nil]
      [] OTHER -> [addr |-> "", err |-> "ErrBech32"]

AccAddressFromBech32(s) ==
    CASE s = "cosmos1x" -> [addr |-> "x", err |-> Nil]
      [] OTHER -> [addr |-> "", err |-> "ErrBech32"]

(* Public keys: the cached value of msg.Pubkey, its type and its address.  *)

PubKeys == {"pk1", "pk2"}
CachedValues == PubKeys \cup {"notAPubKey"}

IsPubKey(v) == v \in PubKeys

PubKeyType(pk) == IF pk = "pk1" THEN "ed25519" ELSE "secp256k1"

GetConsAddress(pk) == IF pk = "pk1" THEN "cons1" ELSE "cons2"

-----------------------------------------------------------------------------
(* The ledger context a handler is handed: the store and the block header. *)

Ctx ==
    [validators |-> validators,
     validatorsByConsAddr |-> validatorsByConsAddr,
     validatorsByPower |-> validatorsByPower,
     hooks |-> hooks,
     balances |-> balances,
     pool |-> pool,
     delegations |-> delegations,
     queue |-> queue,
     height |-> blockHeight,
     time |-> blockTime,
     epochNumber |-> epochNumber,
     consParams |-> consParams]

(* Keeper, bank keeper and epoch clock, by their contracts.                *)

BondDenom(ctx) == "stake"

GetValidator(ctx, valAddr) == valAddr \in DOMAIN ctx.validators

GetValidatorByConsAddr(ctx, consAddr) == consAddr \in DOMAIN ctx.validatorsByConsAddr

SetValidator(ctx, validator) ==
    [ctx EXCEPT !.validators =
        [a \in DOMAIN @ \cup {validator.operator} |->
            IF a = validator.operator THEN validator ELSE @[a]]]

SetValidatorByConsAddr(ctx, validator) ==
    [ctx EXCEPT !.validatorsByConsAddr =
        [c \in DOMAIN @ \cup {GetConsAddress(validator.pubkey)} |->
            IF c = GetConsAddress(validator.pubkey) THEN validator.operator ELSE @[c]]]

SetNewValidatorByPowerIndex(ctx, validator) ==
    [ctx EXCEPT !.validatorsByPower = @ \cup {validator.operator}]

AfterValidatorCreated(ctx, operator) ==
    [ctx EXCEPT !.hooks = @ \cup {operator}]

DelegateCoinsFromAccountToModule(ctx, delegatorAddress, amount) ==
    IF ctx.balances[delegatorAddress] < amount
    THEN [ctx |-> ctx, err |-> "ErrInsufficientFunds"]
    ELSE [ctx |-> [ctx EXCEPT !.balances[delegatorAddress] = @ - amount,
                              !.pool = @ + amount],
          err |-> Nil]

GetEpochNumber(ctx) == ctx.epochNumber

GetNextEpochHeight(ctx) == ((ctx.height \div EpochInterval) + 1) * EpochInterval

GetNextEpochTime(ctx) ==
    ctx.time + (GetNextEpochHeight(ctx) - ctx.height) * BlockSeconds

SaveEpochAction(ctx, epoch, msg) ==
    [ctx EXCEPT !.queue = Append(@, [epochNumber |-> epoch, msg |-> msg])]

CacheContext(ctx) == ctx

WithBlockHeight(ctx, height) == [ctx EXCEPT !.height = height]

WithBlockTime(ctx, time) == [ctx EXCEPT !.time = time]

(* The redelegation and undelegation algorithms the simulation runs: they  *)
(* mutate the context they are given and return a completion time.         *)

EpochBeginRedelegate(ctx, msg) ==
    LET del == AccAddressFromBech32(msg.DelegatorAddress)
        src == ValAddressFromBech32(msg.ValidatorSrcAddress)
        dst == ValAddressFromBech32(msg.ValidatorDstAddress)
        Fail(e) == [ctx |-> ctx, completionTime |-> 0, err |-> e]
    IN  IF del.err # Nil \/ src.err # Nil \/ dst.err # Nil THEN Fail("ErrBech32")
        ELSE IF src.addr = dst.addr THEN Fail("ErrSelfRedelegation")
        ELSE IF ~GetValidator(ctx, dst.addr) THEN Fail("ErrBadRedelegationDst")
        ELSE IF ctx.delegations[<<del.addr, src.addr>>] = 0 THEN Fail("ErrNoDelegation")
        ELSE IF ctx.delegations[<<del.addr, src.addr>>] < msg.Amount
             THEN Fail("ErrNotEnoughDelegationShares")
        ELSE [ctx |-> [ctx EXCEPT
                         !.delegations[<<del.addr, src.addr>>] = @ - msg.Amount,
                         !.delegations[<<del.addr, dst.addr>>] = @ + msg.Amount],
              completionTime |-> ctx.time + UnbondingTime,
              err |-> Nil]

EpochUndelegate(ctx, msg) ==
    LET del == AccAddressFromBech32(msg.DelegatorAddress)
        val == ValAddressFromBech32(msg.ValidatorAddress)
        Fail(e) == [ctx |-> ctx, completionTime |-> 0, err |-> e]
    IN  IF del.err # Nil \/ val.err # Nil THEN Fail("ErrBech32")
        ELSE IF ctx.delegations[<<del.addr, val.addr>>] = 0 THEN Fail("ErrNoDelegation")
        ELSE IF ctx.delegations[<<del.addr, val.addr>>] < msg.Amount
             THEN Fail("ErrNotEnoughDelegationShares")
        ELSE [ctx |-> [ctx EXCEPT
                         !.delegations[<<del.addr, val.addr>>] = @ - msg.Amount],
              completionTime |-> ctx.time + UnbondingTime,
              err |-> Nil]

-----------------------------------------------------------------------------
(* The handlers.  Each returns the context it leaves, the error it returns *)
(* and, for BeginRedelegate and Undelegate, the completion time.           *)

Return(ctx, err) == [ctx |-> ctx, err |-> err, completionTime |-> 0]

(* Variants of the definitions below, each changed as a slip in the code   *)
(* would change it; the properties are checked to tell them apart.         *)

OwnerExistsSkipped(ctx, valAddr) == FALSE

OwnerExists(ctx, valAddr) == GetValidator(ctx, valAddr)

PubKeyExistsSkipped(ctx, pk) == FALSE

PubKeyExists(ctx, pk) == GetValidatorByConsAddr(ctx, GetConsAddress(pk))

CreateValidatorDenomUnchecked(ctx, msg) == TRUE

CreateValidatorDenomOk(ctx, msg) == msg.Value.Denom = BondDenom(ctx)

PubKeyTypeSupported(ctx, pk) ==
    ctx.consParams.isNil \/ PubKeyType(pk) \in ctx.consParams.PubKeyTypes

NewValidator(ctx, valAddr, msg) ==
    [operator |-> valAddr,
     pubkey |-> msg.Pubkey,
     commissionUpdateTime |-> ctx.time,
     minSelfDelegation |-> msg.MinSelfDelegation]

PersistValidatorWithoutHook(ctx, validator) ==
    SetNewValidatorByPowerIndex(
        SetValidatorByConsAddr(SetValidator(ctx, validator), validator),
        validator)

PersistValidator(ctx, validator) ==
    AfterValidatorCreated(
        SetNewValidatorByPowerIndex(
            SetValidatorByConsAddr(SetValidator(ctx, validator), validator),
            validator),
        validator.operator)

CreateValidatorImmediateEpoch(ctx) == 0

CreateValidatorEpochNumber(ctx) == GetEpochNumber(ctx)

CreateValidatorEscrowQueuedFirst(ctx, msg) ==
    LET delegatorAddress == AccAddressFromBech32(msg.DelegatorAddress)
        queued == SaveEpochAction(ctx, CreateValidatorEpochNumber(ctx), msg)
        transfer == DelegateCoinsFromAccountToModule(
                        queued, delegatorAddress.addr, msg.Value.Amount)
    IN  IF delegatorAddress.err # Nil THEN Return(ctx, delegatorAddress.err)
        ELSE IF transfer.err # Nil THEN Return(queued, transfer.err)
        ELSE Return(transfer.ctx, Nil)

CreateValidatorEscrow(ctx, msg) ==
    LET delegatorAddress == AccAddressFromBech32(msg.DelegatorAddress)
        transfer == DelegateCoinsFromAccountToModule(
                        ctx, delegatorAddress.addr, msg.Value.Amount)
    IN  IF delegatorAddress.err # Nil THEN Return(ctx, delegatorAddress.err)
        ELSE IF transfer.err # Nil THEN Return(ctx, transfer.err)
        ELSE Return(SaveEpochAction(transfer.ctx,
                                    CreateValidatorEpochNumber(transfer.ctx), msg),
                    Nil)

CreateValidatorDescriptionBeforeDenom(ctx, msg) ==
    LET valAddr == ValAddressFromBech32(msg.ValidatorAddress)
        pk == msg.Pubkey
    IN  IF valAddr.err # Nil THEN Return(ctx, valAddr.err)
        ELSE IF OwnerExists(ctx, valAddr.addr)
             THEN Return(ctx, "ErrValidatorOwnerExists")
        ELSE IF ~IsPubKey(pk) THEN Return(ctx, "ErrInvalidType")
        ELSE IF PubKeyExists(ctx, pk) THEN Return(ctx, "ErrValidatorPubKeyExists")
        ELSE IF ~msg.DescriptionOk THEN Return(ctx, "ErrDescriptionLength")
        ELSE IF ~CreateValidatorDenomOk(ctx, msg) THEN Return(ctx, "ErrBadDenom")
        ELSE IF ~PubKeyTypeSupported(ctx, pk)
             THEN Return(ctx, "ErrValidatorPubKeyTypeNotSupported")
        ELSE CreateValidatorEscrow(
                 PersistValidator(ctx, NewValidator(ctx, valAddr.addr, msg)), msg)

CreateValidatorHandler(ctx, msg) ==
    LET valAddr == ValAddressFromBech32(msg.ValidatorAddress)
        pk == msg.Pubkey
    IN  IF valAddr.err # Nil THEN Return(ctx, valAddr.err)
        ELSE IF OwnerExists(ctx, valAddr.addr)
             THEN Return(ctx, "ErrValidatorOwnerExists")
        ELSE IF ~IsPubKey(pk) THEN Return(ctx, "ErrInvalidType")
        ELSE IF PubKeyExists(ctx, pk) THEN Return(ctx, "ErrValidatorPubKeyExists")
        ELSE IF ~CreateValidatorDenomOk(ctx, msg) THEN Return(ctx, "ErrBadDenom")
        ELSE IF ~msg.DescriptionOk THEN Return(ctx, "ErrDescriptionLength")
        ELSE IF ~PubKeyTypeSupported(ctx, pk)
             THEN Return(ctx, "ErrValidatorPubKeyTypeNotSupported")
        ELSE CreateValidatorEscrow(
                 PersistValidator(ctx, NewValidator(ctx, valAddr.addr, msg)), msg)

EditValidatorQueuedTwice(ctx, msg) ==
    Return(SaveEpochAction(SaveEpochAction(ctx, GetEpochNumber(ctx), msg),
                           GetEpochNumber(ctx), msg),
           Nil)

EditValidatorValidated(ctx, msg) ==
    LET valAddr == ValAddressFromBech32(msg.ValidatorAddress)
    IN  IF valAddr.err # Nil THEN Return(ctx, valAddr.err)
        ELSE IF ~GetValidator(ctx, valAddr.addr) THEN Return(ctx, "ErrNoValidatorFound")
        ELSE Return(SaveEpochAction(ctx, GetEpochNumber(ctx), msg), Nil)

EditValidatorHandler(ctx, msg) ==
    Return(SaveEpochAction(ctx, GetEpochNumber(ctx), msg), Nil)

DelegateDenomUnchecked(ctx, msg) == TRUE

DelegateDenomOk(ctx, msg) == msg.Amount.Denom = BondDenom(ctx)

DelegateQueuedBeforeTransfer(ctx, msg) ==
    LET delegatorAddress == AccAddressFromBech32(msg.DelegatorAddress)
        queued == SaveEpochAction(ctx, GetEpochNumber(ctx), msg)
        transfer == DelegateCoinsFromAccountToModule(
                        queued, delegatorAddress.addr, msg.Amount.Amount)
    IN  IF delegatorAddress.err # Nil THEN Return(ctx, delegatorAddress.err)
        ELSE IF ~DelegateDenomOk(ctx, msg) THEN Return(ctx, "ErrBadDenom")
        ELSE IF transfer.err # Nil THEN Return(queued, transfer.err)
        ELSE Return(transfer.ctx, Nil)

DelegateToRegisteredOnly(ctx, msg) ==
    LET delegatorAddress == AccAddressFromBech32(msg.DelegatorAddress)
        valAddr == ValAddressFromBech32(msg.ValidatorAddress)
        transfer == DelegateCoinsFromAccountToModule(
                        ctx, delegatorAddress.addr, msg.Amount.Amount)
    IN  IF delegatorAddress.err # Nil THEN Return(ctx, delegatorAddress.err)
        ELSE IF ~DelegateDenomOk(ctx, msg) THEN Return(ctx, "ErrBadDenom")
        ELSE IF valAddr.err # Nil \/ ~GetValidator(ctx, valAddr.addr)
             THEN Return(ctx, "ErrNoValidatorFound")
        ELSE IF transfer.err # Nil THEN Return(ctx, transfer.err)
        ELSE Return(SaveEpochAction(transfer.ctx, GetEpochNumber(transfer.ctx), msg),
                    Nil)

DelegateHandler(ctx, msg) ==
    LET delegatorAddress == AccAddressFromBech32(msg.DelegatorAddress)
        transfer == DelegateCoinsFromAccountToModule(
                        ctx, delegatorAddress.addr, msg.Amount.Amount)
    IN  IF delegatorAddress.err # Nil THEN Return(ctx, delegatorAddress.err)
        ELSE IF ~DelegateDenomOk(ctx, msg) THEN Return(ctx, "ErrBadDenom")
        ELSE IF transfer.err # Nil THEN Return(ctx, transfer.err)
        ELSE Return(SaveEpochAction(transfer.ctx, GetEpochNumber(transfer.ctx), msg),
                    Nil)

ProjectedContextAtCurrentTime(ctx) ==
    WithBlockHeight(CacheContext(ctx), GetNextEpochHeight(ctx))

ProjectedContext(ctx) ==
    WithBlockTime(WithBlockHeight(CacheContext(ctx), GetNextEpochHeight(ctx)),
                  GetNextEpochTime(ctx))

BeginRedelegateQueuedOnSuccess(ctx, msg) ==
    LET sim == EpochBeginRedelegate(ProjectedContext(ctx), msg)
    IN  [ctx |-> IF sim.err = Nil THEN SaveEpochAction(ctx, GetEpochNumber(ctx), msg)
                                  ELSE ctx,
         err |-> sim.err, completionTime |-> sim.completionTime]

BeginRedelegateQueuedInCache(ctx, msg) ==
    LET cacheCtx == ProjectedContext(ctx)
        sim == EpochBeginRedelegate(
                   SaveEpochAction(cacheCtx, GetEpochNumber(ctx), msg), msg)
    IN  [ctx |-> ctx, err |-> sim.err, completionTime |-> sim.completionTime]

BeginRedelegateHandler(ctx, msg) ==
    LET queued == SaveEpochAction(ctx, GetEpochNumber(ctx), msg)
        sim == EpochBeginRedelegate(ProjectedContext(queued), msg)
    IN  [ctx |-> queued, err |-> sim.err, completionTime |-> sim.completionTime]

UndelegateCurrentEpoch(ctx) == GetEpochNumber(ctx)

UndelegateEpochNumber(ctx) == 0

UndelegateOnCallerContext(ctx, msg) ==
    LET queued == SaveEpochAction(ctx, UndelegateEpochNumber(ctx), msg)
        sim == EpochUndelegate(ProjectedContext(queued), msg)
    IN  [ctx |-> sim.ctx, err |-> sim.err, completionTime |-> sim.completionTime]

UndelegateHandler(ctx, msg) ==
    LET queued == SaveEpochAction(ctx, UndelegateEpochNumber(ctx), msg)
        sim == EpochUndelegate(ProjectedContext(queued), msg)
    IN  [ctx |-> queued, err |-> sim.err, completionTime |-> sim.completionTime]

-----------------------------------------------------------------------------
(* The requests the handlers are called with.  A request carries the       *)
(* fields its handler reads; the commission rates of a MsgCreateValidator  *)
(* are taken to be valid, and the requests simulated by BeginRedelegate    *)
(* and Undelegate carry well-formed addresses.                             *)

MsgCreateValidator ==
    [type : {"MsgCreateValidator"},
     ValidatorAddress : ValStrs,
     DelegatorAddress : AccStrs,
     Pubkey : CachedValues,
     Value : [Denom : Denoms, Amount : Amounts],
     DescriptionOk : BOOLEAN,
     MinSelfDelegation : {1}]

MsgEditValidator ==
    [type : {"MsgEditValidator"}, ValidatorAddress : ValStrs]

MsgDelegate ==
    [type : {"MsgDelegate"},
     DelegatorAddress : AccStrs,
     ValidatorAddress : WellFormedValStrs,
     Amount : [Denom : Denoms, Amount : Amounts]]

MsgBeginRedelegate ==
    [type : {"MsgBeginRedelegate"},
     DelegatorAddress : WellFormedAccStrs,
     ValidatorSrcAddress : WellFormedValStrs,
     ValidatorDstAddress : WellFormedValStrs,
     Amount : Amounts]

MsgUndelegate ==
    [type : {"MsgUndelegate"},
     DelegatorAddress : WellFormedAccStrs,
     ValidatorAddress : WellFormedValStrs,
     Amount : Amounts]

-----------------------------------------------------------------------------
(* The state machine: one step per handler call.                           *)

NoConsParams == [isNil |-> TRUE, PubKeyTypes |-> {}]

GenesisValidator ==
    [operator |-> "a", pubkey |-> "pk1", commissionUpdateTime |-> 0,
     minSelfDelegation |-> 1]

Init ==
    /\ \E genesis \in BOOLEAN :
         /\ validators = IF genesis THEN [a \in {"a"} |-> GenesisValidator]
                                    ELSE [a \in {} |-> GenesisValidator]
         /\ validatorsByConsAddr = IF genesis THEN [c \in {"cons1"} |-> "a"]
                                              ELSE [c \in {} |-> "a"]
         /\ validatorsByPower = IF genesis THEN {"a"} ELSE {}
         /\ hooks = IF genesis THEN {"a"} ELSE {}
         /\ delegations = [d \in AccAddrs \X ValAddrs |->
                             IF genesis /\ d[2] = "a" THEN InitDelegation ELSE 0]
    /\ balances = [a \in AccAddrs |-> InitBalance]
    /\ pool = 0
    /\ queue = <<>>
    /\ epochNumber \in Epochs
    /\ blockHeight = epochNumber * EpochInterval + 3
    /\ blockTime = blockHeight * BlockSeconds
    /\ consParams \in {NoConsParams, [isNil |-> FALSE, PubKeyTypes |-> {"ed25519"}]}
    /\ call = [op |-> "none"]
    /\ resp = [err |-> Nil, completionTime |-> 0]
    /\ ncalls = 0
    /\ orphans = {}

Handle(op, msg, r) ==
    /\ validators' = r.ctx.validators
    /\ validatorsByConsAddr' = r.ctx.validatorsByConsAddr
    /\ validatorsByPower' = r.ctx.validatorsByPower
    /\ hooks' = r.ctx.hooks
    /\ balances' = r.ctx.balances
    /\ pool' = r.ctx.pool
    /\ delegations' = r.ctx.delegations
    /\ queue' = r.ctx.queue
    /\ blockHeight' = r.ctx.height
    /\ blockTime' = r.ctx.time
    /\ epochNumber' = r.ctx.epochNumber
    /\ consParams' = r.ctx.consParams
    /\ call' = [op |-> op, msg |-> msg]
    /\ resp' = [err |-> r.err, completionTime |-> r.completionTime]
    /\ ncalls' = ncalls + 1
    /\ orphans' = IF r.err = Nil THEN orphans
                  ELSE orphans \cup (DOMAIN r.ctx.validators \ DOMAIN validators)

CreateValidator ==
    /\ ncalls < MaxCalls
    /\ \E msg \in MsgCreateValidator :
        \E r \in {CreateValidatorHandler(Ctx, msg)} : Handle("CreateValidator", msg, r)

EditValidator ==
    /\ ncalls < MaxCalls
    /\ \E msg \in MsgEditValidator :
        \E r \in {EditValidatorHandler(Ctx, msg)} : Handle("EditValidator", msg, r)

Delegate ==
    /\ ncalls < MaxCalls
    /\ \E msg \in MsgDelegate :
        \E r \in {DelegateHandler(Ctx, msg)} : Handle("Delegate", msg, r)

BeginRedelegate ==
    /\ ncalls < MaxCalls
    /\ \E msg \in MsgBeginRedelegate :
        \E r \in {BeginRedelegateHandler(Ctx, msg)} : Handle("BeginRedelegate", msg, r)

Undelegate ==
    /\ ncalls < MaxCalls
    /\ \E msg \in MsgUndelegate :
        \E r \in {UndelegateHandler(Ctx, msg)} : Handle("Undelegate", msg, r)

Next ==
    \/ CreateValidator
    \/ EditValidator
    \/ Delegate
    \/ BeginRedelegate
    \/ Undelegate

Spec == Init /\ [][Next]_vars

-----------------------------------------------------------------------------
(* Properties of the handlers.  A step of handler op is a step that sets   *)
(* call to a request of op; the unprimed variables are the state the call  *)
(* found and the primed ones the state it left.                            *)

Called(op) == ncalls' = ncalls + 1 /\ call'.op = op

Returned(op) == call.op = op /\ ncalls > 0

QueuedLast(epoch, msg) ==
    queue' = Append(queue, [epochNumber |-> epoch, msg |-> msg])

LastQueued == queue[Len(queue)]

Registry == <<validators, validatorsByConsAddr, validatorsByPower, hooks>>

Ledger == <<validators, validatorsByConsAddr, validatorsByPower, hooks,
            balances, pool, delegations, blockHeight, blockTime, epochNumber,
            consParams>>

OperatorOf(msg) == ValAddressFromBech32(msg.ValidatorAddress)

DelegatorOf(msg) == AccAddressFromBech32(msg.DelegatorAddress)

(* A request that passes every check of CreateValidator in the state it is *)
(* made in, and whose delegator can pay the bonded amount.                 *)
ValidCreateValidator(msg) ==
    /\ OperatorOf(msg).err = Nil
    /\ OperatorOf(msg).addr \notin DOMAIN validators
    /\ IsPubKey(msg.Pubkey)
    /\ GetConsAddress(msg.Pubkey) \notin DOMAIN validatorsByConsAddr
    /\ msg.Value.Denom = "stake"
    /\ msg.DescriptionOk
    /\ (consParams.isNil \/ PubKeyType(msg.Pubkey) \in consParams.PubKeyTypes)
    /\ DelegatorOf(msg).err = Nil
    /\ balances[DelegatorOf(msg).addr] >= msg.Value.Amount

(* C1: a valid CreateValidator request with the bonding denom succeeds;    *)
(* after the call the validator is found by its operator address and by    *)
(* the consensus address of its key, exactly one create-validator action   *)
(* carrying the request is appended under the current epoch number, and    *)
(* exactly the requested amount has moved from the delegator to the pool.  *)
C1_CreateValidatorRegistersAndQueues ==
    [][Called("CreateValidator") /\ ValidCreateValidator(call'.msg) =>
        LET msg == call'.msg
            operator == OperatorOf(msg).addr
            delegator == DelegatorOf(msg).addr
        IN  /\ resp'.err = Nil
            /\ operator \in DOMAIN validators'
            /\ validators'[operator].operator = operator
            /\ validators'[operator].pubkey = msg.Pubkey
            /\ GetConsAddress(msg.Pubkey) \in DOMAIN validatorsByConsAddr'
            /\ validatorsByConsAddr'[GetConsAddress(msg.Pubkey)] = operator
            /\ QueuedLast(epochNumber, msg)
            /\ pool' = pool + msg.Value.Amount
            /\ balances' = [balances EXCEPT ![delegator] = @ - msg.Value.Amount]
      ]_vars

C1_Witness ==
    /\ Returned("CreateValidator")
    /\ resp.err = Nil
    /\ epochNumber = 5
    /\ call.msg.Value = [Denom |-> "stake", Amount |-> 2]
    /\ queue = <<[epochNumber |-> 5, msg |-> call.msg]>>
    /\ pool = 2
    /\ OperatorOf(call.msg).addr \in DOMAIN validators

(* C2: a handler call that returns a malformed-input error (an address     *)
(* that does not decode, or a wrong denom) leaves the validator registry   *)
(* and its indices, the escrow pool and the action queue as it found them. *)
C2_MalformedInputNoSideEffects ==
    [][(\E op \in {"CreateValidator", "Delegate", "BeginRedelegate", "Undelegate"} :
            Called(op))
       /\ resp'.err \in {"ErrBech32", "ErrBadDenom"}
       => UNCHANGED <<validators, validatorsByConsAddr, validatorsByPower,
                      pool, queue>>
      ]_vars

(* C3: CreateValidator for an operator address that already has a          *)
(* validator fails with ErrValidatorOwnerExists, appends nothing to the    *)
(* queue, moves no funds and leaves the registered validator as it was.    *)
C3_OwnerExistsFailsWithoutEffect ==
    [][Called("CreateValidator")
       /\ OperatorOf(call'.msg).err = Nil
       /\ OperatorOf(call'.msg).addr \in DOMAIN validators
       => /\ resp'.err = "ErrValidatorOwnerExists"
          /\ UNCHANGED <<queue, pool, balances, Registry>>
      ]_vars

C3_Witness ==
    /\ Returned("CreateValidator")
    /\ resp.err = "ErrValidatorOwnerExists"
    /\ OperatorOf(call.msg).addr \in DOMAIN validators

(* C4, as stated: CreateValidator with a consensus key that is already     *)
(* registered, under whichever operator address, fails with                *)
(* ErrValidatorPubKeyExists.                                               *)
C4_RegisteredPubKeyAlwaysPubKeyExists ==
    [][Called("CreateValidator")
       /\ IsPubKey(call'.msg.Pubkey)
       /\ GetConsAddress(call'.msg.Pubkey) \in DOMAIN validatorsByConsAddr
       => resp'.err = "ErrValidatorPubKeyExists"
      ]_vars

(* C4, amended: CreateValidator with a well-formed operator address that   *)
(* has no validator, and a consensus key that is already registered,       *)
(* fails with ErrValidatorPubKeyExists and changes nothing; with an        *)
(* operator address that has a validator it fails with                     *)
(* ErrValidatorOwnerExists, and with one that does not decode, with the    *)
(* decoding error.                                                         *)
C4_RegisteredPubKeyFails ==
    [][Called("CreateValidator")
       /\ IsPubKey(call'.msg.Pubkey)
       /\ GetConsAddress(call'.msg.Pubkey) \in DOMAIN validatorsByConsAddr
       => /\ resp'.err =
                IF OperatorOf(call'.msg).err # Nil THEN "ErrBech32"
                ELSE IF OperatorOf(call'.msg).addr \in DOMAIN validators
                     THEN "ErrValidatorOwnerExists"
                     ELSE "ErrValidatorPubKeyExists"
          /\ UNCHANGED <<queue, pool, balances, Registry>>
      ]_vars

C4_Witness ==
    /\ Returned("CreateValidator")
    /\ resp.err = "ErrValidatorPubKeyExists"
    /\ GetConsAddress(call.msg.Pubkey) \in DOMAIN validatorsByConsAddr
    /\ validatorsByConsAddr[GetConsAddress(call.msg.Pubkey)] # OperatorOf(call.msg).addr

(* The context the simulation of a call made in the current state is to   *)
(* run on: the ledger as the call found it, at the next epoch's height and *)
(* time.                                                                   *)
NextEpochLedger ==
    [Ctx EXCEPT !.height = GetNextEpochHeight(Ctx), !.time = GetNextEpochTime(Ctx)]

(* C5: BeginRedelegate appends exactly one begin-redelegate action, under  *)
(* the current epoch number, whether its simulation succeeds or fails; a   *)
(* failed simulation's error is returned and the action stays queued.      *)
C5_BeginRedelegateAlwaysQueues ==
    [][Called("BeginRedelegate") =>
        /\ QueuedLast(epochNumber, call'.msg)
        /\ resp'.err = EpochBeginRedelegate(NextEpochLedger, call'.msg).err
      ]_vars

C5_Witness ==
    /\ Returned("BeginRedelegate")
    /\ resp.err # Nil
    /\ Len(queue) = 2
    /\ LastQueued = [epochNumber |-> epochNumber, msg |-> call.msg]

(* C6: Undelegate appends its action under epoch number 0, not under the   *)
(* current epoch number, whatever the current epoch number is and whether  *)
(* or not its simulation succeeds.                                         *)
C6_UndelegateQueuesAtZero ==
    [][Called("Undelegate") =>
        /\ QueuedLast(0, call'.msg)
        /\ queue'[Len(queue')].epochNumber # epochNumber
      ]_vars

C6_Witness ==
    /\ Returned("Undelegate")
    /\ epochNumber = 5
    /\ resp.err = Nil
    /\ LastQueued = [epochNumber |-> 0, msg |-> call.msg]

(* C7: the completion time a successful BeginRedelegate (Undelegate)       *)
(* returns is the one the redelegation (undelegation) algorithm returns    *)
(* for the same request on the ledger as the call found it, at the next    *)
(* epoch's height and time.                                                *)
C7_CompletionTimeOfProjection ==
    [][/\ Called("BeginRedelegate") /\ resp'.err = Nil =>
            resp'.completionTime =
                EpochBeginRedelegate(NextEpochLedger, call'.msg).completionTime
       /\ Called("Undelegate") /\ resp'.err = Nil =>
            resp'.completionTime =
                EpochUndelegate(NextEpochLedger, call'.msg).completionTime
      ]_vars

C7_Witness ==
    /\ Returned("BeginRedelegate")
    /\ resp.err = Nil
    /\ resp.completionTime = GetNextEpochTime(Ctx) + UnbondingTime
    /\ resp.completionTime # blockTime + UnbondingTime

(* C8: BeginRedelegate and Undelegate leave the ledger (validators,        *)
(* delegations, balances, block height and time) as they found it, but for *)
(* the one action they append to the queue, whether the simulation         *)
(* succeeds or fails.                                                      *)
C8_SimulationLeavesLedger ==
    [][Called("BeginRedelegate") \/ Called("Undelegate") =>
        /\ UNCHANGED Ledger
        /\ Len(queue') = Len(queue) + 1
        /\ SubSeq(queue', 1, Len(queue)) = queue
        /\ queue'[Len(queue')].msg = call'.msg
      ]_vars

C8_Witness ==
    /\ Returned("Undelegate")
    /\ resp.err = Nil
    /\ EpochUndelegate(NextEpochLedger, call.msg).ctx.delegations # delegations

(* C9: Delegate with a denom other than the bonding denom fails, and the   *)
(* escrow pool, the balances and the queue are as before the call.         *)
C9_DelegateBadDenomFailsFirst ==
    [][Called("Delegate") /\ call'.msg.Amount.Denom # "stake" =>
        /\ resp'.err # Nil
        /\ UNCHANGED <<pool, balances, queue>>
      ]_vars

C9_Witness ==
    /\ Returned("Delegate")
    /\ call.msg.Amount.Denom # "stake"
    /\ resp.err = "ErrBadDenom"
    /\ balances[DelegatorOf(call.msg).addr] >= call.msg.Amount.Amount

(* C10: CreateValidator for an operator address and a consensus key that   *)
(* have no validator, with a denom other than the bonding denom, fails     *)
(* with ErrBadDenom; no validator is persisted, no funds move and nothing  *)
(* is queued.                                                              *)
C10_CreateValidatorBadDenom ==
    [][/\ Called("CreateValidator")
       /\ OperatorOf(call'.msg).err = Nil
       /\ OperatorOf(call'.msg).addr \notin DOMAIN validators
       /\ IsPubKey(call'.msg.Pubkey)
       /\ GetConsAddress(call'.msg.Pubkey) \notin DOMAIN validatorsByConsAddr
       /\ call'.msg.Value.Denom # "stake"
       => /\ resp'.err = "ErrBadDenom"
          /\ UNCHANGED <<Registry, pool, balances, queue>>
      ]_vars

C10_Witness ==
    /\ Returned("CreateValidator")
    /\ resp.err = "ErrBadDenom"
    /\ call.msg.Value = [Denom |-> "atom", Amount |-> 2]
    /\ OperatorOf(call.msg).addr \notin DOMAIN validators
    /\ queue = <<>>
    /\ pool = 0

-----------------------------------------------------------------------------
(* Properties of the registry and the queue over sequences of calls.       *)

ConsAddressOf(a) == GetConsAddress(validators[a].pubkey)

(* C11: after any sequence of handler calls, no two validator records      *)
(* share an operator address or a consensus address, and the operator      *)
(* index and the consensus index hold the same validators.                 *)
C11_AddressesUnique ==
    /\ \A a \in DOMAIN validators : validators[a].operator = a
    /\ \A a, b \in DOMAIN validators : a # b => ConsAddressOf(a) # ConsAddressOf(b)
    /\ DOMAIN validatorsByConsAddr = {ConsAddressOf(a) : a \in DOMAIN validators}
    /\ \A a \in DOMAIN validators : validatorsByConsAddr[ConsAddressOf(a)] = a

C11_Witness ==
    /\ Returned("CreateValidator")
    /\ resp.err = Nil
    /\ DOMAIN validators = {"a", "b"}
    /\ DOMAIN validatorsByConsAddr = {"cons1", "cons2"}

(* C12: no handler call removes, reorders or alters a queued action; a     *)
(* call appends at most one action, the request it was made with, at the   *)
(* end of the queue, so the actions of one epoch number are stored in the  *)
(* order of the calls that appended them.                                  *)
C12_QueueAppendOnly ==
    [][\/ queue' = queue
       \/ \E epoch \in Epochs \cup {0} : QueuedLast(epoch, call'.msg)
      ]_vars

C12_Witness ==
    /\ Len(queue) = 2
    /\ queue[1].epochNumber = queue[2].epochNumber
    /\ queue[1].msg.type = "MsgEditValidator"
    /\ queue[2].msg.type = "MsgCreateValidator"
    /\ queue[2].msg = call.msg

(* A request that passes every check of CreateValidator in the state it is *)
(* made in, so that the handler goes on to persist the validator.          *)
PassesCreateValidatorChecks(msg) ==
    /\ OperatorOf(msg).err = Nil
    /\ OperatorOf(msg).addr \notin DOMAIN validators
    /\ IsPubKey(msg.Pubkey)
    /\ GetConsAddress(msg.Pubkey) \notin DOMAIN validatorsByConsAddr
    /\ msg.Value.Denom = "stake"
    /\ msg.DescriptionOk
    /\ (consParams.isNil \/ PubKeyType(msg.Pubkey) \in consParams.PubKeyTypes)

(* C13: when the fund transfer of CreateValidator fails, the error is      *)
(* returned, the validator written before it stays in the operator index,  *)
(* the consensus index and the power index, the after-creation hook has    *)
(* been called, no funds have moved and nothing is queued.                 *)
C13_TransferFailureLeavesOrphan ==
    [][/\ Called("CreateValidator")
       /\ PassesCreateValidatorChecks(call'.msg)
       /\ DelegatorOf(call'.msg).err = Nil
       /\ balances[DelegatorOf(call'.msg).addr] < call'.msg.Value.Amount
       => LET msg == call'.msg
              operator == OperatorOf(msg).addr
          IN  /\ resp'.err = "ErrInsufficientFunds"
              /\ DOMAIN validators' = DOMAIN validators \cup {operator}
              /\ validators'[operator].pubkey = msg.Pubkey
              /\ validatorsByConsAddr'[GetConsAddress(msg.Pubkey)] = operator
              /\ validatorsByPower' = validatorsByPower \cup {operator}
              /\ hooks' = hooks \cup {operator}
              /\ UNCHANGED <<queue, pool, balances>>
      ]_vars

C13_Witness ==
    /\ Returned("CreateValidator")
    /\ resp.err = "ErrInsufficientFunds"
    /\ OperatorOf(call.msg).addr \in DOMAIN validators
    /\ OperatorOf(call.msg).addr \in validatorsByPower \cap hooks
    /\ \A i \in 1..Len(queue) : queue[i].msg.type # "MsgCreateValidator"

(* C14: when the fund transfer of Delegate fails, the transfer error is    *)
(* returned and nothing is queued: the queue, the escrow pool and every    *)
(* other part of the ledger are as before the call.                        *)
C14_DelegateTransferFailure ==
    [][/\ Called("Delegate")
       /\ DelegatorOf(call'.msg).err = Nil
       /\ call'.msg.Amount.Denom = "stake"
       /\ balances[DelegatorOf(call'.msg).addr] < call'.msg.Amount.Amount
       => /\ resp'.err = "ErrInsufficientFunds"
          /\ UNCHANGED <<queue, Ledger>>
      ]_vars

C14_Witness ==
    /\ Returned("Delegate")
    /\ resp.err = "ErrInsufficientFunds"
    /\ balances[DelegatorOf(call.msg).addr] < call.msg.Amount.Amount

(* The first of the five ordered checks of CreateValidator that a request  *)
(* fails in the current state, or Nil when it fails none.                  *)
FirstViolatedCheck(msg) ==
    IF OperatorOf(msg).addr \in DOMAIN validators THEN "ErrValidatorOwnerExists"
    ELSE IF GetConsAddress(msg.Pubkey) \in DOMAIN validatorsByConsAddr
         THEN "ErrValidatorPubKeyExists"
    ELSE IF msg.Value.Denom # "stake" THEN "ErrBadDenom"
    ELSE IF ~msg.DescriptionOk THEN "ErrDescriptionLength"
    ELSE IF ~consParams.isNil /\ PubKeyType(msg.Pubkey) \notin consParams.PubKeyTypes
         THEN "ErrValidatorPubKeyTypeNotSupported"
    ELSE Nil

ViolatedChecks(msg) ==
    (IF OperatorOf(msg).addr \in DOMAIN validators THEN {1} ELSE {})
    \cup (IF GetConsAddress(msg.Pubkey) \in DOMAIN validatorsByConsAddr THEN {2} ELSE {})
    \cup (IF msg.Value.Denom # "stake" THEN {3} ELSE {})
    \cup (IF ~msg.DescriptionOk THEN {4} ELSE {})
    \cup (IF ~consParams.isNil /\ PubKeyType(msg.Pubkey) \notin consParams.PubKeyTypes
          THEN {5} ELSE {})

(* C15: for a CreateValidator request whose operator address decodes and   *)
(* whose key is a public key, the error returned is that of the first      *)
(* check it fails, in the order operator registered, key registered,       *)
(* denom, description, key type; such a failure leaves the registry, the   *)
(* balances, the pool and the queue as they were.                          *)
C15_FailFastOrder ==
    [][/\ Called("CreateValidator")
       /\ OperatorOf(call'.msg).err = Nil
       /\ IsPubKey(call'.msg.Pubkey)
       => IF FirstViolatedCheck(call'.msg) # Nil
          THEN /\ resp'.err = FirstViolatedCheck(call'.msg)
               /\ UNCHANGED <<queue, Ledger>>
          ELSE resp'.err \in {Nil, "ErrBech32", "ErrInsufficientFunds"}
      ]_vars

C15_Witness ==
    /\ Returned("CreateValidator")
    /\ OperatorOf(call.msg).err = Nil
    /\ IsPubKey(call.msg.Pubkey)
    /\ resp.err = "ErrBadDenom"
    /\ ViolatedChecks(call.msg) = {3, 4, 5}

(* C16: every EditValidator call, whether or not its operator address has  *)
(* a validator, appends one edit-validator action under the current epoch  *)
(* number, returns success and changes nothing else.                       *)
C16_EditValidatorOnlyQueues ==
    [][Called("EditValidator") =>
        /\ resp'.err = Nil
        /\ QueuedLast(epochNumber, call'.msg)
        /\ UNCHANGED Ledger
      ]_vars

C16_Witness ==
    /\ Returned("EditValidator")
    /\ resp.err = Nil
    /\ OperatorOf(call.msg).err = Nil
    /\ OperatorOf(call.msg).addr \notin DOMAIN validators
    /\ LastQueued = [epochNumber |-> epochNumber, msg |-> call.msg]

Handlers == {"CreateValidator", "EditValidator", "Delegate", "BeginRedelegate",
             "Undelegate"}

(* C17: a handler call that returns success has appended exactly one       *)
(* action, carrying its request, to the queue of the ledger, where the     *)
(* next reader of the queue finds it.                                      *)
C17_SuccessMeansQueued ==
    [][(\E op \in Handlers : Called(op)) /\ resp'.err = Nil =>
        /\ Len(queue') = Len(queue) + 1
        /\ SubSeq(queue', 1, Len(queue)) = queue
        /\ queue'[Len(queue')].msg = call'.msg
        /\ queue'[Len(queue')].epochNumber \in {epochNumber, 0}
      ]_vars

C17_Witness ==
    /\ Returned("BeginRedelegate")
    /\ resp.err = Nil
    /\ Len(queue) = 2
    /\ queue[1].msg.type = "MsgCreateValidator"
    /\ LastQueued.msg = call.msg

(* The funds the queued create-validator and delegate actions escrowed.    *)
RECURSIVE QueuedFunds(_)
QueuedFunds(q) ==
    IF q = <<>> THEN 0
    ELSE QueuedFunds(Tail(q)) +
         (CASE Head(q).msg.type = "MsgCreateValidator" -> Head(q).msg.Value.Amount
            [] Head(q).msg.type = "MsgDelegate" -> Head(q).msg.Amount.Amount
            [] OTHER -> 0)

(* C18: from an empty queue and an empty escrow pool, after any sequence   *)
(* of handler calls the escrow pool holds the sum of the amounts of the    *)
(* queued create-validator and delegate actions.                           *)
C18_EscrowMatchesQueue == pool = QueuedFunds(queue)

C18_Witness ==
    /\ Len(queue) = 2
    /\ queue[1].msg.type = "MsgCreateValidator"
    /\ queue[2].msg.type = "MsgDelegate"
    /\ pool = 2
    /\ QueuedFunds(queue) = 2

(* The queued create-validator actions for operator a or for its key.      *)
CreateActionsFor(q, a) ==
    {i \in 1..Len(q) :
        /\ q[i].msg.type = "MsgCreateValidator"
        /\ \/ OperatorOf(q[i].msg).addr = a
           \/ q[i].msg.Pubkey = validators[a].pubkey}

(* The validator a queued or requested action names.                       *)
NamesValidator(msg, a) ==
    /\ msg.type \in {"MsgCreateValidator", "MsgDelegate"}
    /\ OperatorOf(msg).addr = a

(* C19, as stated: once a CreateValidator call has failed after persisting *)
(* a validator, later CreateValidator calls for its operator address fail  *)
(* with ErrValidatorOwnerExists, later ones with its key fail, and no      *)
(* handler call queues a create-validator action or escrows funds for it.  *)
C19_OrphanNeverFunded ==
    [][\A a \in orphans :
        /\ Called("CreateValidator") /\ OperatorOf(call'.msg).addr = a
            => resp'.err = "ErrValidatorOwnerExists"
        /\ Called("CreateValidator") /\ call'.msg.Pubkey = validators[a].pubkey
            => resp'.err # Nil
        /\ CreateActionsFor(queue', a) = {}
        /\ (\E op \in Handlers : Called(op)) /\ NamesValidator(call'.msg, a)
            => pool' = pool
      ]_vars

(* C19, amended: once a CreateValidator call has failed after persisting a *)
(* validator, later CreateValidator calls for its operator address fail    *)
(* with ErrValidatorOwnerExists, later ones with its key fail, and no      *)
(* handler call queues a create-validator action for it or escrows funds   *)
(* for its creation; it stays registered.  A later Delegate that names it  *)
(* still escrows funds and is queued.                                      *)
C19_OrphanNeverCreated ==
    [][\A a \in orphans :
        /\ Called("CreateValidator") /\ OperatorOf(call'.msg).addr = a
            => resp'.err = "ErrValidatorOwnerExists"
        /\ Called("CreateValidator") /\ call'.msg.Pubkey = validators[a].pubkey
            => resp'.err # Nil
        /\ CreateActionsFor(queue', a) = {}
        /\ Called("CreateValidator") /\ NamesValidator(call'.msg, a)
            => pool' = pool
        /\ a \in orphans'
        /\ a \in DOMAIN validators' /\ validators'[a] = validators[a]
      ]_vars

C19_Witness ==
    /\ Returned("CreateValidator")
    /\ resp.err = "ErrValidatorOwnerExists"
    /\ OperatorOf(call.msg).addr \in orphans
    /\ call.msg.Pubkey # validators[OperatorOf(call.msg).addr].pubkey
    /\ CreateActionsFor(queue, OperatorOf(call.msg).addr) = {}
    /\ pool = 0

(* C20: a Delegate call with a well-formed delegator address, the bonding  *)
(* denomination and a delegator balance that covers the amount succeeds,   *)
(* moves the amount from the delegator into the escrow pool and appends    *)
(* the request to the queue under the current epoch number, whether or not *)
(* the target validator is registered; the registry is left as it was.     *)
C20_DelegateIgnoresRegistry ==
    [][/\ Called("Delegate")
       /\ DelegatorOf(call'.msg).err = Nil
       /\ call'.msg.Amount.Denom = "stake"
       /\ balances[DelegatorOf(call'.msg).addr] >= call'.msg.Amount.Amount
       => /\ resp'.err = Nil
          /\ pool' = pool + call'.msg.Amount.Amount
          /\ balances' = [balances EXCEPT ![DelegatorOf(call'.msg).addr] =
                              @ - call'.msg.Amount.Amount]
          /\ QueuedLast(epochNumber, call'.msg)
          /\ UNCHANGED <<Registry, delegations>>
      ]_vars

C20_Witness ==
    /\ Returned("Delegate")
    /\ resp.err = Nil
    /\ OperatorOf(call.msg).addr \notin DOMAIN validators
    /\ LastQueued.msg = call.msg
    /\ pool >= call.msg.Amount.Amount

====
